---- MODULE Spec2Model ----
(***************************************************************************)
(* Model of core/lib/metrics.js: a store of timestamped events that the    *)
(* default aggregator folds into periods on every tick of a driftless      *)
(* interval.  Time is Date.now() in milliseconds.  Every handler of the    *)
(* single-threaded program is one atomic action.                           *)
(***************************************************************************)
EXTENDS Integers, Sequences, FiniteSets, TLC

VARIABLES
  now,                      \* Date.now()
  tickAt,                   \* time at which the driftless interval fires next
  pc,                       \* position of the driving script
  _aggregationIntervalMs,
  _aggregationLagMs,
  _aggregateInterval,       \* handle of the driftless interval
  _events,                  \* name -> sequence of {ts, v}
  _eventTypes,              \* name -> type
  _eventNames,              \* name -> display name
  _timers,                  \* name -> sequence of marks
  _periods,                 \* sequence of periods
  _nextPeriodBeginning,     \* window cursor, Undefined until the first close
  emitted,                  \* 'aggregate' notifications, in emission order
  recorded,                 \* history: every event() call
  marked,                   \* history: every markStart()/markEnd() call
  lastTick,                 \* history: what the latest tick did, and how
                            \* many ticks so far closed no window
  answer                    \* what the latest query handed to its callback

vars == <<now, tickAt, pc, _aggregationIntervalMs, _aggregationLagMs,
          _aggregateInterval, _events, _eventTypes, _eventNames, _timers,
          _periods, _nextPeriodBeginning, emitted, recorded, marked, lastTick,
          answer>>

\* ------------------------------------------------------------------ bounds
MaxTime == 7          \* the clock of Spec stops here
MaxCalls == 2         \* recording calls (events and marks) in one run of Spec
BasicMaxTime == 10001 \* the clock of SpecBasic stops here
ScriptSlack == 1      \* milliseconds the script of SpecBasic may take
SteadyMaxTime == 60   \* the clock of SpecSteady stops here
CounterMaxCalls == 3  \* recordings in one run of SpecCounter

\* ------------------------------------------------------ JavaScript values
Undefined == -1
Infinity == 1000000000

Truthy(x) == x # Undefined /\ x # 0

Or(a, b) == IF Truthy(a) THEN a ELSE b

hasOwnProperty(obj, key) == key \in DOMAIN obj

GetProp(obj, key) == IF key \in DOMAIN obj THEN obj[key] ELSE Undefined

SetProp(obj, key, val) ==
  [k \in DOMAIN obj \cup {key} |-> IF k = key THEN val ELSE obj[k]]

EmptyObject == [k \in {} |-> Undefined]

\* a comparison with undefined is false
Gte(a, b) == a # Undefined /\ b # Undefined /\ a >= b
Lte(a, b) == a # Undefined /\ b # Undefined /\ a <= b

Min(a, b) == IF a <= b THEN a ELSE b

RECURSIVE SumV(_)
SumV(s) == IF s = <<>> THEN 0 ELSE Head(s).v + SumV(Tail(s))

Keys(obj) == DOMAIN obj

\* ------------------------------------------------------------ constructor
\* opts.aggregationInterval and opts.aggregationLag are seconds; a fraction
\* of a second is the quotient num / den.
Ms(opt, default) ==
  IF opt.num = 0 THEN default * 1000 ELSE (opt.num * 1000) \div opt.den

\* Math.floor(this._aggregationIntervalMs * 1.5)
TickPeriod == (_aggregationIntervalMs * 3) \div 2

\* Date.now() when the engine is constructed
ConstructedAt == 1

constructor(opts) ==
  /\ _aggregationIntervalMs = Ms(opts.aggregationInterval, 10)
  /\ _aggregationLagMs = Ms(opts.aggregationLag, 10)
  /\ _events = EmptyObject
  /\ _eventTypes = EmptyObject
  /\ _eventNames = EmptyObject
  /\ _timers = EmptyObject
  /\ _periods = <<>>
  /\ _nextPeriodBeginning = Undefined
  /\ emitted = <<>>
  /\ now = ConstructedAt
  /\ tickAt = now + (Ms(opts.aggregationInterval, 10) * 3) \div 2
  /\ _aggregateInterval = "set"

\* driftless.clearDriftless(this._aggregateInterval)
free == _aggregateInterval' = "cleared"

\* ------------------------------------------------------------ event store
\* describeMetric for one definition {name, type, displayName}
describeMetric(o) ==
  /\ IF o.type = "watermark"
       THEN /\ _timers' = SetProp(_timers, o.name, <<>>)
            /\ UNCHANGED _events
       ELSE /\ _events' = SetProp(_events, o.name, <<>>)
            /\ UNCHANGED _timers
  /\ _eventTypes' = SetProp(_eventTypes, o.name, o.type)
  /\ _eventNames' = SetProp(_eventNames, o.name,
                              IF o.displayName = "" THEN o.name ELSE o.displayName)

event(name, value) ==
  LET stream == IF hasOwnProperty(_events, name) THEN _events[name] ELSE <<>>
  IN  /\ _events' = SetProp(_events, name, Append(stream, [ts |-> now, v |-> value]))
      /\ recorded' = Append(recorded, [name |-> name, ts |-> now, v |-> value])

listEvents(events) == Keys(events)

\* undefined for a name that was never declared
getEventType(name) ==
  IF hasOwnProperty(_eventTypes, name) THEN _eventTypes[name] ELSE "undefined"

getEventDataHalfOpen(events, name, gte, lte) ==
  SelectSeq(events[name], LAMBDA e : e.ts >= gte /\ e.ts < lte)

getEventData(events, name, gte, lte) ==
  SelectSeq(events[name], LAMBDA e : e.ts >= gte /\ e.ts <= lte)

\* the parameters are declared in the order (name, lte, gte)
getTimerData(timers, name, lte, gte) ==
  SelectSeq(timers[name],
            LAMBDA e : Gte(GetProp(e, "ts"), gte) /\ Lte(GetProp(e, "ts"), lte))

deleteEventDataPastEnd(events, name, gte, lte) ==
  SelectSeq(events[name], LAMBDA e : e.ts > lte + 1)

deleteEventDataInclusive(events, name, gte, lte) ==
  SelectSeq(events[name], LAMBDA e : e.ts >= lte)

deleteEventData(events, name, gte, lte) ==
  SelectSeq(events[name], LAMBDA e : e.ts > lte)

InRange(t, gte, lte) == Truthy(t) /\ Lte(t, lte) /\ Gte(t, gte)

RECURSIVE CountMarks(_, _, _, _)
CountMarks(s, key, gte, lte) ==
  IF s = <<>> THEN 0
  ELSE (IF InRange(GetProp(Head(s), key), gte, lte) THEN 1 ELSE 0)
       + CountMarks(Tail(s), key, gte, lte)

deleteTimerData(timers, name, gte, lte) ==
  LET stats == [sats |-> CountMarks(timers[name], "sat", gte, lte),
                eats |-> CountMarks(timers[name], "eat", gte, lte)]
      kept == SelectSeq(timers[name],
                LAMBDA e : \/ InRange(GetProp(e, "eat"), gte, lte)
                           \/ InRange(GetProp(e, "sat"), gte, lte))
  IN  IF stats.sats > stats.eats THEN <<>> \o kept ELSE kept

getEarliestEventTimestamp(events) ==
  LET ts(e) == IF Len(events[e]) = 0 THEN Infinity ELSE events[e][1].ts
      RECURSIVE MinOver(_, _)
      MinOver(S, min) ==
        IF S = {} THEN min
        ELSE LET e == CHOOSE x \in S : TRUE
             IN  MinOver(S \ {e}, Min(min, ts(e)))
  IN  MinOver(Keys(events), Infinity)

\* an array holding one object
Array1(obj) == [k \in {"0"} |-> obj]

markStart(name, id) ==
  LET stream == IF hasOwnProperty(_timers, name) THEN _timers[name] ELSE <<>>
  IN  /\ _timers' = SetProp(_timers, name,
                            Append(stream, Array1([sat |-> now, id |-> id])))
      /\ marked' = Append(marked, [name |-> name, kind |-> "sat", ts |-> now])

markEnd(name, id) ==
  LET stream == IF hasOwnProperty(_timers, name) THEN _timers[name] ELSE <<>>
  IN  /\ _timers' = SetProp(_timers, name,
                            Append(stream, Array1([eat |-> now, id |-> id])))
      /\ marked' = Append(marked, [name |-> name, kind |-> "eat", ts |-> now])

listPeriods(periods) == [i \in 1..Len(periods) |-> periods[i].id]

\* what _.find returns when no element matches
NotFound == [undefined |-> TRUE]

getPeriodLatest(periods, id) ==
  LET found == {i \in 1..Len(periods) : periods[i].id = id}
  IN  IF found = {} THEN NotFound ELSE periods[Len(periods)]

\* _.find(this._periods, p => p.id === id): the first match
getPeriod(periods, id) ==
  LET found == {i \in 1..Len(periods) : periods[i].id = id}
  IN  IF found = {} THEN NotFound
      ELSE periods[CHOOSE i \in found : \A j \in found : i <= j]

\* cb(null, {})
getLastPeriod(periods) == EmptyObject

\* ------------------------------------------------------------- aggregator
\* round(number, 2) of the quotient n / d, kept in hundredths
round2(n, d) == (2 * 100 * n + d) \div (2 * d)

\* HdrHistogram.build({lowestDiscernibleValue: 2, highestTrackableValue:
\* 1e12, numberOfSignificantValueDigits: 2}) of hdr-histogram-js.  Values
\* below 2 * 256 fall into buckets of two values each.  The values of a
\* histogram are integers, which round(..., 2) leaves as they are.
lowestDiscernibleValue == 2
unitMagnitudeMask == lowestDiscernibleValue - 1

\* Number.MAX_SAFE_INTEGER, the minimum before any value is recorded; it is
\* only compared, and stands above every value the model records
MAX_SAFE_INTEGER == 2147483647

lowestEquivalentValue(v) == (v \div lowestDiscernibleValue) * lowestDiscernibleValue
highestEquivalentValue(v) == lowestEquivalentValue(v) + unitMagnitudeMask

build ==
  [samples |-> <<>>, maxValue |-> 0, minNonZeroValue |-> MAX_SAFE_INTEGER]

recordValue(h, v) ==
  [samples |-> Append(h.samples, v),
   maxValue |-> IF v > h.maxValue THEN v + unitMagnitudeMask ELSE h.maxValue,
   minNonZeroValue |->
     IF v < h.minNonZeroValue /\ v # 0 /\ v > unitMagnitudeMask
       THEN lowestEquivalentValue(v) ELSE h.minNonZeroValue]

\* eventStream.forEach(e => h.recordValue(e.v))
RECURSIVE RecordAll(_, _)
RecordAll(h, eventStream) ==
  IF eventStream = <<>> THEN h
  ELSE RecordAll(recordValue(h, Head(eventStream).v), Tail(eventStream))

\* the highest value of the first bucket, in increasing order, up to which
\* at least max(1, ceil(percentile * totalCount / 100)) values are counted;
\* 0 when no bucket gets there
getValueAtPercentile(h, percentile) ==
  LET totalCount == Len(h.samples)
      fp == (percentile * totalCount + 99) \div 100
      countAtPercentile == IF fp < 1 THEN 1 ELSE fp
      totalToBucketOf(v) ==
        Cardinality({i \in 1..totalCount :
                       lowestEquivalentValue(h.samples[i]) <= lowestEquivalentValue(v)})
      reached == {h.samples[i] : i \in {j \in 1..totalCount :
                    totalToBucketOf(h.samples[j]) >= countAtPercentile}}
  IN  IF reached = {} THEN 0
      ELSE highestEquivalentValue(CHOOSE v \in reached : \A w \in reached : v <= w)

Summary(h) ==
  [min |-> h.minNonZeroValue,
   max |-> h.maxValue,
   median |-> getValueAtPercentile(h, 50),
   p95 |-> getValueAtPercentile(h, 95),
   p99 |-> getValueAtPercentile(h, 99)]

MetricEntryCount(name, eventType, eventStream) ==
  IF eventType = "counter"
    THEN [type |-> eventType, value |-> Len(eventStream)]
  ELSE IF eventType = "meter"
    THEN [type |-> eventType,
          value |-> round2(Len(eventStream) * 1000, _aggregationIntervalMs),
          unit |-> "second"]
  ELSE [type |-> eventType, value |-> Summary(RecordAll(build, eventStream))]

\* the entry of period.metrics for one name of listEvents(), if it gets one
MetricEntry(name, eventType, eventStream) ==
  IF eventType = "counter"
    THEN [type |-> eventType, value |-> SumV(eventStream)]
  ELSE IF eventType = "meter"
    THEN [type |-> eventType,
          value |-> round2(Len(eventStream) * 1000, _aggregationIntervalMs),
          unit |-> "second"]
  ELSE [type |-> eventType, value |-> Summary(RecordAll(build, eventStream))]

AggregatedTypes == {"counter", "meter", "histogram"}

\* the scan of one watermark stream
RECURSIVE Scan(_, _, _)
Scan(s, c, high) ==
  IF s = <<>> THEN high
  ELSE IF Truthy(GetProp(Head(s), "sat"))
         THEN Scan(Tail(s), c + 1, IF c + 1 > high THEN c + 1 ELSE high)
       ELSE IF Truthy(GetProp(Head(s), "eat"))
         THEN Scan(Tail(s), c - 1, high)
       ELSE Scan(Tail(s), c, high)

Watermark(timers, name, earliest, latest) ==
  [type |-> "watermark",
   value |-> Scan(getTimerData(timers, name, earliest, latest), 0, 0)]

\* period[name] = ... for every name of a set of timers
RECURSIVE SetWatermarks(_, _, _, _, _)
SetWatermarks(period, names, timers, earliest, latest) ==
  IF names = {} THEN period
  ELSE LET name == CHOOSE x \in names : TRUE
       IN  SetWatermarks(
             SetProp(period, name, Watermark(timers, name, earliest, latest)),
             names \ {name}, timers, earliest, latest)

uuid == Len(_periods) + 1

\* this._periods.push(period); this.events.emit('aggregate', period):
\* a subscriber is handed the period and sees the engine as it is when emit
\* is called (the period ids listed, the declared types, the timer names)
Notification(periods, period) ==
  [payload |-> period, at |-> now, listed |-> listPeriods(periods),
   types |-> _eventTypes, timers |-> Keys(_timers)]

PushTwice(periods, log, period) ==
  LET pushed == Append(Append(periods, period), period)
  IN  [periods |-> pushed,
       log |-> Append(Append(log, Notification(pushed, period)),
                      Notification(pushed, period))]

EmitBeforePush(periods, log, period) ==
  [periods |-> Append(periods, period),
   log |-> Append(log, Notification(periods, period))]

PushAndEmit(periods, log, period) ==
  LET pushed == Append(periods, period)
  IN  [periods |-> pushed, log |-> Append(log, Notification(pushed, period))]

\* this._nextPeriodBeginning = latest + 1
NoGapBeginning(latest) == latest

NextPeriodBeginning(latest) == latest + 1

EarliestPending == getEarliestEventTimestamp(_events)

\* this._nextPeriodBeginning || this.getEarliestEventTimestamp()
Earliest == Or(_nextPeriodBeginning, getEarliestEventTimestamp(_events))
Latest == Earliest + _aggregationIntervalMs
WithLag == Latest + _aggregationLagMs

\* if (withLag > Date.now()) skip
IgnoresLag(withLag) == withLag - _aggregationLagMs > now

TooEarly(withLag) == withLag > now

NotSafeYet == TooEarly(WithLag)

defaultAggregator ==
  LET earliest == Earliest
      latest == Latest
  IN
  IF earliest = Infinity
    THEN /\ lastTick' = [at |-> now, outcome |-> "empty", idle |-> lastTick.idle + 1]
         /\ UNCHANGED <<_events, _timers, _periods, _nextPeriodBeginning, emitted>>
  ELSE IF NotSafeYet
    THEN /\ lastTick' = [at |-> now, outcome |-> "skip", idle |-> lastTick.idle + 1]
         /\ UNCHANGED <<_events, _timers, _periods, _nextPeriodBeginning, emitted>>
  ELSE
    LET typed == {name \in listEvents(_events) :
                    getEventType(name) \in AggregatedTypes}
        metrics == [name \in typed |->
                      MetricEntry(name, getEventType(name),
                                  getEventData(_events, name, earliest, latest))]
        period0 == [id |-> uuid, startsAt |-> earliest, endsAt |-> latest,
                    metrics |-> metrics]
        period == SetWatermarks(period0, Keys(_timers), _timers, earliest, latest)
        out == PushAndEmit(_periods, emitted, period)
    IN  /\ _nextPeriodBeginning' = NextPeriodBeginning(latest)
        /\ _events' = [name \in listEvents(_events) |->
                         deleteEventData(_events, name, earliest, latest)]
        /\ _timers' = [name \in Keys(_timers) |->
                         deleteTimerData(_timers, name, earliest, latest)]
        /\ _periods' = out.periods
        /\ emitted' = out.log
        /\ lastTick' = [at |-> now, outcome |-> "close", idle |-> lastTick.idle]

\* ------------------------------------------------------------------ inputs
EventNames == {"requests"}
TimerNames == {"inflight"}
Declarations ==
  (EventNames \X {"counter", "meter"}) \cup (TimerNames \X {"watermark"})
DisplayNames == {""}
Values == {1, 2}
Seconds(n, d) == [num |-> n, den |-> d]

PeriodIds == 1..3
NoAnswer == [op |-> "none", id |-> 0, stored |-> 0, result |-> EmptyObject]

\* --------------------------------------------------- Spec: any interleaving
Init ==
  /\ constructor([aggregationInterval |-> Seconds(2, 1000),
                  aggregationLag |-> Seconds(1, 1000)])
  /\ pc = 0
  /\ recorded = <<>>
  /\ marked = <<>>
  /\ lastTick = [at |-> 0, outcome |-> "none", idle |-> 0]
  /\ answer = NoAnswer

config == <<_aggregationIntervalMs, _aggregationLagMs>>
clock == <<now, tickAt>>
store == <<_events, _eventTypes, _eventNames, _timers>>
produced == <<_periods, _nextPeriodBeginning, emitted>>
api == <<_aggregateInterval, answer>>

Calls == Len(recorded) + Len(marked)

TickDueAnyway == now >= tickAt

\* the interval is armed and its next tick is due
TickDue == _aggregateInterval = "set" /\ now >= tickAt

\* a millisecond passes; a due tick of the interval fires before the next one
Advance ==
  /\ now < MaxTime
  /\ ~TickDue
  /\ now' = now + 1
  /\ UNCHANGED <<tickAt, pc, config, api, store, produced, recorded, marked, lastTick>>

\* the callback of setDriftlessInterval
Tick ==
  /\ TickDue
  /\ tickAt' = tickAt + TickPeriod
  /\ defaultAggregator
  /\ UNCHANGED <<now, pc, config, api, _eventTypes, _eventNames, recorded, marked>>

DescribeMetric ==
  \E d \in Declarations, displayName \in DisplayNames :
    /\ describeMetric([name |-> d[1], type |-> d[2], displayName |-> displayName])
    /\ UNCHANGED <<clock, pc, config, api, produced, recorded, marked, lastTick>>

Counter ==
  \E name \in EventNames, value \in Values :
    /\ Calls < MaxCalls
    /\ event(name, value)
    /\ UNCHANGED <<clock, pc, config, api, _eventTypes, _eventNames, _timers,
                   produced, marked, lastTick>>

Meter ==
  \E name \in EventNames :
    /\ Calls < MaxCalls
    /\ event(name, 1)
    /\ UNCHANGED <<clock, pc, config, api, _eventTypes, _eventNames, _timers,
                   produced, marked, lastTick>>

MarkStart ==
  \E name \in TimerNames :
    /\ Calls < MaxCalls
    /\ markStart(name, 1)
    /\ UNCHANGED <<clock, pc, config, api, _events, _eventTypes, _eventNames,
                   produced, recorded, lastTick>>

MarkEnd ==
  \E name \in TimerNames :
    /\ Calls < MaxCalls
    /\ markEnd(name, 1)
    /\ UNCHANGED <<clock, pc, config, api, _events, _eventTypes, _eventNames,
                   produced, recorded, lastTick>>

Next ==
  \/ Advance
  \/ Tick
  \/ DescribeMetric
  \/ Counter
  \/ Meter
  \/ MarkStart
  \/ MarkEnd

Spec == Init /\ [][Next]_vars

\* ------------- SpecApi: recordings, shutdown and the queries on periods
ApiDeclarations == EventNames \X {"counter", "histogram"}

ApiDescribe ==
  \E d \in ApiDeclarations, displayName \in DisplayNames :
    /\ describeMetric([name |-> d[1], type |-> d[2], displayName |-> displayName])
    /\ UNCHANGED <<clock, pc, config, api, produced, recorded, marked, lastTick>>

Free ==
  /\ free
  /\ UNCHANGED <<clock, pc, config, store, produced, recorded, marked,
                 lastTick, answer>>

\* the callback is handed the result; stored is the number of periods held
\* by the period store when the query ran
GetPeriod ==
  \E id \in PeriodIds :
    /\ answer' = [op |-> "getPeriod", id |-> id, stored |-> Len(_periods),
                  result |-> getPeriod(_periods, id)]
    /\ UNCHANGED <<clock, pc, config, _aggregateInterval, store, produced,
                   recorded, marked, lastTick>>

GetLastPeriod ==
  /\ answer' = [op |-> "getLastPeriod", id |-> 0, stored |-> Len(_periods),
                result |-> getLastPeriod(_periods)]
  /\ UNCHANGED <<clock, pc, config, _aggregateInterval, store, produced,
                 recorded, marked, lastTick>>

ApiNext ==
  \/ Advance
  \/ Tick
  \/ ApiDescribe
  \/ Counter
  \/ Free
  \/ GetPeriod
  \/ GetLastPeriod

SpecApi == Init /\ [][ApiNext]_vars

\* ---- SpecCounter: a counter declared once, then recordings and ticks
\* pc is 0 until the counter is declared
DeclareOnce ==
  \E name \in EventNames :
    /\ pc = 0
    /\ describeMetric([name |-> name, type |-> "counter", displayName |-> ""])
    /\ pc' = 1
    /\ UNCHANGED <<clock, config, api, produced, recorded, marked, lastTick>>

RecordDeclared ==
  \E name \in EventNames, value \in Values :
    /\ pc = 1
    /\ Len(recorded) < CounterMaxCalls
    /\ event(name, value)
    /\ UNCHANGED <<clock, pc, config, api, _eventTypes, _eventNames, _timers,
                   produced, marked, lastTick>>

CounterNext ==
  \/ Advance
  \/ Tick
  \/ DeclareOnce
  \/ RecordDeclared

SpecCounter == Init /\ [][CounterNext]_vars

\* ------------------- SpecBasic: 'Basic tracking of a couple of metrics'
requestCount == "engine.http.request.count"
code200 == "engine.http.response.code.200"
ops == "engine.http.response.rate"

\* the calls of the test, in order; the histogram is left out
Script ==
  << [op |-> "describeMetric", name |-> requestCount, type |-> "counter"],
     [op |-> "describeMetric", name |-> code200, type |-> "counter"],
     [op |-> "describeMetric", name |-> ops, type |-> "meter"],
     [op |-> "counter", name |-> requestCount, value |-> 1],
     [op |-> "counter", name |-> requestCount, value |-> 2],
     [op |-> "meter", name |-> ops],
     [op |-> "meter", name |-> ops] >>

ScriptDone == pc > Len(Script)

BasicInit ==
  /\ constructor([aggregationInterval |-> Seconds(2, 1),
                  aggregationLag |-> Seconds(2, 1)])
  /\ pc = 1
  /\ recorded = <<>>
  /\ marked = <<>>
  /\ lastTick = [at |-> 0, outcome |-> "none", idle |-> 0]
  /\ answer = NoAnswer

BasicAdvance ==
  /\ now < BasicMaxTime
  /\ ~TickDue
  /\ ScriptDone \/ now < ConstructedAt + ScriptSlack
  /\ now' = now + 1
  /\ UNCHANGED <<tickAt, pc, config, api, store, produced, recorded, marked, lastTick>>

BasicDescribe ==
  /\ ~ScriptDone
  /\ Script[pc].op = "describeMetric"
  /\ describeMetric([name |-> Script[pc].name, type |-> Script[pc].type,
                     displayName |-> ""])
  /\ pc' = pc + 1
  /\ UNCHANGED <<clock, config, api, produced, recorded, marked, lastTick>>

BasicCounter ==
  /\ ~ScriptDone
  /\ Script[pc].op = "counter"
  /\ event(Script[pc].name, Script[pc].value)
  /\ pc' = pc + 1
  /\ UNCHANGED <<clock, config, api, _eventTypes, _eventNames, _timers, produced,
                 marked, lastTick>>

BasicMeter ==
  /\ ~ScriptDone
  /\ Script[pc].op = "meter"
  /\ event(Script[pc].name, 1)
  /\ pc' = pc + 1
  /\ UNCHANGED <<clock, config, api, _eventTypes, _eventNames, _timers, produced,
                 marked, lastTick>>

BasicNext ==
  \/ BasicAdvance
  \/ Tick
  \/ BasicDescribe
  \/ BasicCounter
  \/ BasicMeter

SpecBasic == BasicInit /\ [][BasicNext]_vars

\* ------------------ SpecSteady: a producer recording at a steady rate
ProducerEvery == 1    \* milliseconds between two recordings

SteadyInit ==
  /\ constructor([aggregationInterval |-> Seconds(4, 1000),
                  aggregationLag |-> Seconds(2, 1000)])
  /\ pc = 0
  /\ recorded = <<>>
  /\ marked = <<>>
  /\ lastTick = [at |-> 0, outcome |-> "none", idle |-> 0]
  /\ answer = NoAnswer

\* pc is the time at which the producer records next, 0 before it is started
SteadyDescribe ==
  /\ pc = 0
  /\ describeMetric([name |-> "requests", type |-> "counter", displayName |-> ""])
  /\ pc' = now + ProducerEvery
  /\ UNCHANGED <<clock, config, api, produced, recorded, marked, lastTick>>

SteadyRecord ==
  /\ pc # 0
  /\ now >= pc
  /\ event("requests", 1)
  /\ pc' = pc + ProducerEvery
  /\ UNCHANGED <<clock, config, api, _eventTypes, _eventNames, _timers, produced,
                 marked, lastTick>>

SteadyAdvance ==
  /\ now < SteadyMaxTime
  /\ ~TickDue
  /\ pc # 0
  /\ now < pc
  /\ now' = now + 1
  /\ UNCHANGED <<tickAt, pc, config, api, store, produced, recorded, marked, lastTick>>

SteadyNext ==
  \/ SteadyAdvance
  \/ Tick
  \/ SteadyDescribe
  \/ SteadyRecord

SpecSteady == SteadyInit /\ [][SteadyNext]_vars

\* ------------------------------------------------------------- properties
RecordedIn(name, gte, lte) ==
  SelectSeq(recorded, LAMBDA r : r.name = name /\ r.ts >= gte /\ r.ts <= lte)

MarkedIn(name, gte, lte) ==
  SelectSeq(marked, LAMBDA r : r.name = name /\ r.ts >= gte /\ r.ts <= lte)

\* the peak of (starts - stops) over a scan of marks in timestamp order
RECURSIVE Peak(_, _, _)
Peak(s, c, high) ==
  IF s = <<>> THEN high
  ELSE IF Head(s).kind = "sat"
         THEN Peak(Tail(s), c + 1, IF c + 1 > high THEN c + 1 ELSE high)
         ELSE Peak(Tail(s), c - 1, high)

OwnFields == {"id", "startsAt", "endsAt", "metrics"}

Closing == Len(_periods') = Len(_periods) + 1
Ticking == tickAt' # tickAt

\* C1: for every declared counter and every closed window, the counter value
\* of the period equals the sum of the values of all events recorded for that
\* name with timestamps inside the window; a declared counter without events
\* in the window is present with value 0.
C1_CounterSum ==
  \A i \in 1..Len(emitted) :
    LET p == emitted[i].payload
        types == emitted[i].types
    IN  \A name \in DOMAIN types :
          types[name] = "counter" =>
            /\ name \in DOMAIN p.metrics
            /\ p.metrics[name].type = "counter"
            /\ p.metrics[name].value =
                 SumV(RecordedIn(name, p.startsAt, p.endsAt))

\* C3: consecutive periods are contiguous, period[i+1].startsAt =
\* period[i].endsAt + 1, and startsAt increases strictly in the order in
\* which listPeriods returns the ids.
C3_Contiguous ==
  /\ \A i \in 1..(Len(_periods) - 1) :
       /\ _periods[i + 1].startsAt = _periods[i].endsAt + 1
       /\ _periods[i + 1].startsAt > _periods[i].startsAt
  /\ \A i \in 1..Len(_periods) : listPeriods(_periods)[i] = _periods[i].id

C3_Witness == Len(_periods) >= 2

\* C4: a period with endsAt = E is appended and notified no earlier than
\* E + aggregationLagMs, and a tick that fires before that time leaves the
\* cursor, the event store and the period store unchanged.
C4_LagSafety ==
  [][/\ Closing =>
          /\ _periods'[Len(_periods')].endsAt + _aggregationLagMs <= now
          /\ emitted'[Len(emitted')].at >=
               emitted'[Len(emitted')].payload.endsAt + _aggregationLagMs
     /\ (Ticking /\ Earliest # Infinity /\ now < Latest + _aggregationLagMs) =>
          UNCHANGED <<_nextPeriodBeginning, _events, _timers, _periods, emitted>>
    ]_vars

\* a period closed by the tick after one that came too early for it
C4_Witness ==
  \E i \in 1..Len(emitted) :
    LET e == emitted[i]
    IN  /\ e.payload.startsAt <= e.at - TickPeriod
        /\ e.at - TickPeriod < e.payload.endsAt + _aggregationLagMs
        /\ e.at >= e.payload.endsAt + _aggregationLagMs

\* C5: right after a window with bound endsAt is closed the event store
\* holds, for every name, no event with timestamp <= endsAt and every event
\* it held with timestamp > endsAt.
C5_Pruning ==
  [][Closing =>
       LET endsAt == _periods'[Len(_periods')].endsAt
       IN  /\ DOMAIN _events' = DOMAIN _events
           /\ \A name \in DOMAIN _events :
                /\ \A k \in 1..Len(_events'[name]) : _events'[name][k].ts > endsAt
                /\ _events'[name] =
                     SelectSeq(_events[name], LAMBDA e : e.ts > endsAt)
    ]_vars

\* an event recorded during the lag is still stored after the close
C5_Witness ==
  /\ Len(_periods) >= 1
  /\ lastTick.outcome = "close"
  /\ \E name \in DOMAIN _events : \E k \in 1..Len(_events[name]) :
       /\ _events[name][k].ts > _periods[Len(_periods)].endsAt
       /\ _events[name][k].ts <= lastTick.at
  /\ \E r \in 1..Len(recorded) :
       recorded[r].ts <= _periods[Len(_periods)].endsAt

\* C6: the value reported for a watermark metric in a window is the peak,
\* over a scan of its start and stop marks of that window in timestamp
\* order, of (starts seen so far - stops seen so far).
C6_WatermarkPeak ==
  \A i \in 1..Len(emitted) :
    LET p == emitted[i].payload
    IN  \A name \in emitted[i].timers :
          /\ name \in DOMAIN p
          /\ p[name].value = Peak(MarkedIn(name, p.startsAt, p.endsAt), 0, 0)

\* C7: events recorded on a name that was never declared are aggregated as
\* a counter into the period of their window.
C7_UndeclaredAggregated ==
  \A i \in 1..Len(emitted) :
    LET p == emitted[i].payload
    IN  \A r \in 1..Len(recorded) :
          (/\ recorded[r].name \notin DOMAIN emitted[i].types
           /\ recorded[r].ts >= p.startsAt
           /\ recorded[r].ts <= p.endsAt) =>
            /\ recorded[r].name \in DOMAIN p.metrics
            /\ p.metrics[recorded[r].name].value =
                 SumV(RecordedIn(recorded[r].name, p.startsAt, p.endsAt))

\* C9: every period has, for every watermark name known to the engine, the
\* entry metrics[name] = {type: 'watermark', value}, and the period carries
\* nothing besides id, startsAt, endsAt and metrics.
C9_WatermarkInMetrics ==
  \A i \in 1..Len(emitted) :
    LET p == emitted[i].payload
    IN  /\ DOMAIN p = OwnFields
        /\ \A name \in emitted[i].timers :
             /\ name \in DOMAIN p.metrics
             /\ p.metrics[name].type = "watermark"

\* C10: every window close emits exactly one 'aggregate' notification, its
\* payload is the period just produced, and the period is already in the
\* period store when the subscriber is called; a tick that closes no window
\* emits nothing.
C10_NotifyAfterAppend ==
  /\ Len(emitted) = Len(_periods)
  /\ \A i \in 1..Len(emitted) :
       /\ emitted[i].payload = _periods[i]
       /\ Len(emitted[i].listed) = i
       /\ emitted[i].listed[i] = emitted[i].payload.id

\* a period was notified and an earlier tick closed nothing
C10_Witness ==
  /\ Len(emitted) >= 1
  /\ lastTick.outcome = "close"
  /\ lastTick.idle >= 1

\* C2 as stated: with interval 2 s and lag 2 s, counter increments of 1 and
\* 2 at engine start and a declared counter that is never recorded, at any
\* time >= 4 s after the recordings exactly one period exists, its counter
\* is 3 and the untouched counter is 0.
C2_ExactlyOnePeriod ==
  (ScriptDone /\ now >= recorded[Len(recorded)].ts + 4000) =>
    /\ Len(_periods) = 1
    /\ _periods[1].metrics[requestCount].value = 3
    /\ _periods[1].metrics[code200].value = 0

\* ticks of the interval fired so far
TicksFired == (tickAt - ConstructedAt) \div TickPeriod - 1

\* C2 amended: no period exists before the second tick of the interval
\* (6 s after construction), exactly one between the second and the third
\* tick, and more from the third tick (9 s) on; the first period's counter
\* is 3 and the untouched declared counter is 0.
C2_FirstPeriod ==
  ScriptDone =>
    /\ TicksFired < 2 => Len(_periods) = 0
    /\ TicksFired = 2 => Len(_periods) = 1
    /\ TicksFired > 2 => Len(_periods) > 1
    /\ Len(_periods) >= 1 =>
         /\ _periods[1].metrics[requestCount] = [type |-> "counter", value |-> 3]
         /\ _periods[1].metrics[code200] = [type |-> "counter", value |-> 0]

C2_Witness ==
  /\ ScriptDone
  /\ now >= recorded[Len(recorded)].ts + 4000
  /\ Len(_periods) = 1
  /\ TicksFired = 2

\* events held in the event store
RECURSIVE CountEvents(_, _)
CountEvents(events, names) ==
  IF names = {} THEN 0
  ELSE LET name == CHOOSE x \in names : TRUE
       IN  Len(events[name]) + CountEvents(events, names \ {name})

\* what the producer records during one interval, one lag and one tick period
BacklogBound ==
  (_aggregationIntervalMs + _aggregationLagMs + TickPeriod) \div ProducerEvery + 1

\* C8: with a producer recording at a steady rate the number of raw events in
\* the event store stays below a bound that does not depend on elapsed time,
\* and so does the gap between now and the window cursor.
C8_BoundedBacklog ==
  /\ CountEvents(_events, Keys(_events)) <= BacklogBound
  /\ Truthy(_nextPeriodBeginning) =>
       now - _nextPeriodBeginning
         <= _aggregationIntervalMs + _aggregationLagMs + TickPeriod

\* C11: whenever at least one period has been produced, getLastPeriod hands
\* its callback the period appended last to the period store, the one with
\* the greatest startsAt.
C11_LastPeriod ==
  (answer.op = "getLastPeriod" /\ answer.stored >= 1) =>
    /\ answer.result = _periods[answer.stored]
    /\ \A i \in 1..answer.stored :
         _periods[i].startsAt <= _periods[answer.stored].startsAt

\* C12: getPeriod is a pure lookup: for a stored id every later call returns
\* the period the first call returned, whatever recordings, declarations and
\* ticks come in between, because stored periods are never changed; for an
\* id that is not stored it returns the not-found value; a query leaves the
\* period store unchanged.
C12_PureLookup ==
  [][/\ \A i \in 1..Len(_periods) :
          i <= Len(_periods') /\ _periods'[i] = _periods[i]
     /\ answer' # answer => _periods' = _periods
     /\ answer'.op = "getPeriod" =>
          IF \E i \in 1..answer'.stored : _periods'[i].id = answer'.id
            THEN /\ answer'.result # NotFound
                 /\ answer'.result.id = answer'.id
                 /\ getPeriod(_periods', answer'.id) = answer'.result
            ELSE answer'.result = NotFound
    ]_vars

\* a period was fetched, then an event was recorded and a later tick
\* appended another period
C12_Witness ==
  /\ answer.op = "getPeriod"
  /\ answer.result # NotFound
  /\ Len(_periods) > answer.stored
  /\ \E r \in 1..Len(recorded) :
       recorded[r].ts > _periods[answer.stored].endsAt + _aggregationLagMs

\* C13: once free() has returned no tick of the interval runs: no period is
\* appended, no notification is emitted, the cursor stays and no event is
\* pruned, also when events keep being recorded; a second free() changes
\* nothing.
C13_NoTickAfterFree ==
  [][_aggregateInterval = "cleared" =>
       /\ _aggregateInterval' = "cleared"
       /\ UNCHANGED <<_periods, emitted, _nextPeriodBeginning, tickAt, lastTick>>
       /\ \A name \in DOMAIN _events :
            /\ name \in DOMAIN _events'
            /\ \/ Len(_events'[name]) >= Len(_events[name])
               \/ _events'[name] = <<>> /\ name \in DOMAIN _eventTypes'
    ]_vars

\* the interval is cleared, its next tick is overdue and that tick would
\* have closed a window holding a recorded event
C13_Witness ==
  /\ _aggregateInterval = "cleared"
  /\ now > tickAt
  /\ Earliest # Infinity
  /\ ~NotSafeYet
  /\ \E name \in DOMAIN _events : Len(_events[name]) >= 1

\* no event and no mark is held for any name
NothingPending ==
  /\ \A name \in DOMAIN _events : _events[name] = <<>>
  /\ \A name \in DOMAIN _timers : _timers[name] = <<>>

\* C14 as stated: a tick at which nothing is pending is a no-op, no period
\* is appended, nothing is emitted, the cursor and the stores stay, also
\* after periods have been produced.
C14_IdleTickNoOp ==
  [][(Ticking /\ NothingPending) =>
       UNCHANGED <<_periods, emitted, _nextPeriodBeginning, _events, _timers>>
    ]_vars

\* C14 amended: a tick at which nothing is pending is a no-op as long as no
\* period has been produced (the cursor is unset); once the cursor is set,
\* a tick at or after cursor + interval + lag closes the window that starts
\* at the cursor although nothing is pending: it appends and emits a period
\* with every declared counter at 0 and moves the cursor on by interval + 1.
C14_IdleTick ==
  [][(Ticking /\ NothingPending) =>
       IF ~Truthy(_nextPeriodBeginning)
            \/ now < _nextPeriodBeginning + _aggregationIntervalMs + _aggregationLagMs
         THEN UNCHANGED <<_periods, emitted, _nextPeriodBeginning, _events, _timers>>
         ELSE /\ Closing
              /\ Len(emitted') = Len(emitted) + 1
              /\ emitted'[Len(emitted')].payload = _periods'[Len(_periods')]
              /\ _periods'[Len(_periods')].startsAt = _nextPeriodBeginning
              /\ _nextPeriodBeginning' =
                   _nextPeriodBeginning + _aggregationIntervalMs + 1
              /\ \A name \in DOMAIN _eventTypes :
                   _eventTypes[name] = "counter" =>
                     _periods'[Len(_periods')].metrics[name].value = 0
              /\ UNCHANGED <<_events, _timers>>
    ]_vars

\* the latest tick closed a window at a time when nothing was pending, and a
\* counter is declared
C14_Witness ==
  /\ Len(_periods) >= 2
  /\ lastTick.outcome = "close"
  /\ NothingPending
  /\ \A r \in 1..Len(recorded) : recorded[r].ts < _periods[Len(_periods)].startsAt
  /\ \A r \in 1..Len(marked) : marked[r].ts < _periods[Len(_periods)].startsAt
  /\ \E name \in DOMAIN _eventTypes :
       /\ _eventTypes[name] = "counter"
       /\ name \in DOMAIN _periods[Len(_periods)].metrics

\* C15: declaring again a name that is already declared, with the same
\* type, leaves the events recorded for that name and not yet aggregated in
\* the event store: a step that is not a tick and keeps the type of a name
\* keeps every event held for it.
C15_RedeclareKeepsEvents ==
  [][\A name \in DOMAIN _eventTypes :
       (/\ ~Ticking
        /\ name \in DOMAIN _events
        /\ _eventTypes'[name] = _eventTypes[name]) =>
         \A k \in 1..Len(_events[name]) :
           /\ k <= Len(_events'[name])
           /\ _events'[name][k] = _events[name][k]
    ]_vars

ZeroSummary == [min |-> 0, max |-> 0, median |-> 0, p95 |-> 0, p99 |-> 0]

\* C16: a declared histogram without a sample in a closed window has an
\* entry in the period of that window, and its min, max, median, p95 and
\* p99 are all zero, so that min <= median <= p95 <= p99 <= max.
C16_EmptyHistogram ==
  \A i \in 1..Len(emitted) :
    LET p == emitted[i].payload
        types == emitted[i].types
    IN  \A name \in DOMAIN types :
          (/\ types[name] = "histogram"
           /\ RecordedIn(name, p.startsAt, p.endsAt) = <<>>) =>
            /\ name \in DOMAIN p.metrics
            /\ p.metrics[name].type = "histogram"
            /\ p.metrics[name].value = ZeroSummary
            /\ p.metrics[name].value.min <= p.metrics[name].value.median
            /\ p.metrics[name].value.p99 <= p.metrics[name].value.max

\* C17: for every declared meter and every closed window the value reported
\* is the number of events recorded for that name with a timestamp in the
\* window, divided by aggregationIntervalMs / 1000 and rounded to 2
\* decimals, with unit 'second'; no recording lies in two windows.
C17_MeterRate ==
  /\ \A i \in 1..Len(emitted) :
       LET p == emitted[i].payload
           types == emitted[i].types
       IN  \A name \in DOMAIN types :
             types[name] = "meter" =>
               /\ name \in DOMAIN p.metrics
               /\ p.metrics[name] =
                    [type |-> "meter",
                     value |-> round2(Len(RecordedIn(name, p.startsAt, p.endsAt)) * 1000,
                                      _aggregationIntervalMs),
                     unit |-> "second"]
  /\ \A r \in 1..Len(recorded) :
       Cardinality({i \in 1..Len(_periods) :
                      /\ _periods[i].startsAt <= recorded[r].ts
                      /\ recorded[r].ts <= _periods[i].endsAt}) <= 1

\* C18: when marks of a watermark are the only data recorded, a period that
\* covers the earliest mark exists at the latest after the second tick that
\* fires at or after earliest mark + aggregationIntervalMs +
\* aggregationLagMs.
C18_MarksOnlyPeriod ==
  (/\ Len(recorded) = 0
   /\ Len(marked) >= 1
   /\ lastTick.at >= marked[1].ts + _aggregationIntervalMs + _aggregationLagMs
                       + TickPeriod) =>
    \E i \in 1..Len(_periods) :
      /\ _periods[i].startsAt <= marked[1].ts
      /\ marked[1].ts <= _periods[i].endsAt

\* the time at which a stored mark was recorded
MarkTs(e) ==
  LET mark == e["0"]
  IN  IF hasOwnProperty(mark, "sat") THEN mark.sat ELSE mark.eat

\* C19: closing a window with bound endsAt removes from every watermark
\* stream the marks with timestamp <= endsAt and keeps every start and stop
\* mark recorded later than endsAt, which is then available to the next
\* window.
C19_TimerPruning ==
  [][Closing =>
       LET endsAt == _periods'[Len(_periods')].endsAt
       IN  /\ DOMAIN _timers' = DOMAIN _timers
           /\ \A name \in DOMAIN _timers :
                _timers'[name] =
                  SelectSeq(_timers[name], LAMBDA e : MarkTs(e) > endsAt)
    ]_vars

\* the events held for a name when a window is closed, by timestamp
HeldIn(name, gte, lte) ==
  SelectSeq(_events[name], LAMBDA e : e.ts >= gte /\ e.ts <= lte)

\* C20 as stated: a window is the half-open interval [startsAt, endsAt): an
\* event held with timestamp endsAt is not aggregated into the period, which
\* aggregates exactly the events with startsAt <= timestamp < endsAt.
C20_HalfOpenWindow ==
  [][Closing =>
       LET p == _periods'[Len(_periods')]
       IN  \A name \in DOMAIN _events :
             getEventType(name) = "counter" =>
               p.metrics[name].value =
                 SumV(HeldIn(name, p.startsAt, p.endsAt - 1))
    ]_vars

\* C20 amended: a window is the closed interval [startsAt, endsAt] with
\* endsAt = startsAt + aggregationIntervalMs: the period aggregates exactly
\* the events held at the close with startsAt <= timestamp <= endsAt, an
\* event with timestamp endsAt included, and the next window starts at
\* endsAt + 1.
C20_ClosedWindow ==
  [][Closing =>
       LET p == _periods'[Len(_periods')]
       IN  /\ p.endsAt = p.startsAt + _aggregationIntervalMs
           /\ _nextPeriodBeginning' = p.endsAt + 1
           /\ \A name \in DOMAIN _events :
                /\ getEventType(name) = "counter" =>
                     p.metrics[name].value =
                       SumV(HeldIn(name, p.startsAt, p.endsAt))
                /\ getEventType(name) = "meter" =>
                     p.metrics[name].value =
                       round2(Len(HeldIn(name, p.startsAt, p.endsAt)) * 1000,
                              _aggregationIntervalMs)
    ]_vars

\* a period whose counter includes an event recorded at its endsAt
C20_Witness ==
  \E i \in 1..Len(emitted) :
    LET p == emitted[i].payload
    IN  \E name \in DOMAIN emitted[i].types :
          /\ emitted[i].types[name] = "counter"
          /\ RecordedIn(name, p.endsAt, p.endsAt) # <<>>
          /\ RecordedIn(name, p.startsAt, p.endsAt - 1) # <<>>
          /\ p.metrics[name].value = SumV(RecordedIn(name, p.startsAt, p.endsAt))

\* a stored period is whole: it has its own fields, its window is one
\* interval long, and it has an entry for every name that was declared with
\* an aggregated type and listed when it was notified
Whole(i) ==
  LET p == _periods[i]
  IN  /\ OwnFields \subseteq DOMAIN p
      /\ p.endsAt = p.startsAt + _aggregationIntervalMs
      /\ emitted[i].payload = p
      /\ \A name \in DOMAIN emitted[i].types :
           emitted[i].types[name] \in AggregatedTypes =>
             name \in DOMAIN p.metrics

RECURSIVE SumPeriods(_, _)
SumPeriods(name, n) ==
  IF n = 0 THEN 0
  ELSE (IF name \in DOMAIN _periods[n].metrics
          THEN _periods[n].metrics[name].value ELSE 0)
       + SumPeriods(name, n - 1)

\* the periods whose window holds a timestamp
PeriodsOf(ts) ==
  {i \in 1..Len(_periods) : _periods[i].startsAt <= ts /\ ts <= _periods[i].endsAt}

====
